---- MODULE Spec2Model ----
(***************************************************************************)
(* ICU antimicrobial stewardship dashboard (src/app.py).                   *)
(*                                                                         *)
(* Cell values are integers:                                               *)
(*   v >= 0   a number; temperatures and lactates in tenths (38.0 -> 380,  *)
(*            2.0 -> 20), probabilities and thresholds in 1/10000          *)
(*            (0.5 -> 5000)                                                *)
(*   NaN      np.nan, the null of pandas                                   *)
(*   v <= STR a str object; STR is some non-numeric text of an uploaded    *)
(*            file, the three action labels are the cells that             *)
(*            out["recommendation"] = actions writes                       *)
(* A table (pandas DataFrame) is [cols |-> sequence of column names,       *)
(* rows |-> sequence of rows], a row being a function from the column      *)
(* names to cell values (what .iloc[i].to_dict() returns).                 *)
(***************************************************************************)
EXTENDS Integers, Sequences, FiniteSets, TLC

VARIABLES
    \* ---- harness of map_action (MapSpec) ----
    m_prob, m_row, m_thr, m_action,
    \* ---- harness of ensure_feature_df (AlignSpec) ----
    a_df, a_arg, a_ret, a_called,
    \* ---- the process (Spec) ----
    pc,             \* position of the script run: "idle" between two runs
    cache,          \* st.cache_resource of load_models: <<>> or <<the tuple returned>>
    loads,          \* number of executions of the body of load_models
    from_cache,     \* whether line 16 of this run was answered from the cache
    cal,            \* module global cal (line 16)
    FEATURE_ORDER,  \* module global FEATURE_ORDER (line 16)
    THRESHOLD,      \* module global THRESHOLD (line 16)
    button,         \* st.button("Predict") of this run
    user_vals,      \* the dict user_vals of this run, as a one-row table
    file,           \* st.file_uploader: <<>> (None) or <<the uploaded csv>>
    row, X, prob, action,           \* locals of the single patient flow
    shown,          \* st.metric / st.success / st.bar_chart / st.info calls of tab1
    raw, tmp, Xb, probs, actions,   \* locals of the batch flow (tmp is raw.copy())
    out,            \* <<>> or <<the table out>>
    download,       \* <<>> or <<the table offered by st.download_button>>
    error           \* the uncaught exception that ended the script run, or "none"

mapVars   == <<m_prob, m_row, m_thr, m_action>>
alignVars == <<a_df, a_arg, a_ret, a_called>>
loadVars  == <<cache, loads, from_cache, cal, FEATURE_ORDER, THRESHOLD>>
tab1Vars  == <<row, X, prob, action, shown>>
tab2Vars  == <<raw, tmp, Xb, probs, actions, out, download>>
appVars   == <<pc, cache, loads, from_cache, cal, THRESHOLD, button, user_vals, file,
               row, X, prob, action, shown,
               raw, tmp, Xb, probs, actions, out, download, error>>
vars      == <<mapVars, alignVars, appVars, FEATURE_ORDER>>

(***************************************************************************)
(* Values                                                                  *)
(***************************************************************************)
NaN == -1
STR == -2

Range(s) == {s[i] : i \in DOMAIN s}

IsText(v) == v <= STR

\* Python's `a < b` on floats: False as soon as one side is nan
Lt(a, b) == a # NaN /\ b # NaN /\ a < b

\* np.isnan(v) on a float; on a str it raises TypeError (isnan_raises)
isnan(v) == v = NaN
isnan_raises(v) == IsText(v)

(***************************************************************************)
(* Decision mapper                                                         *)
(***************************************************************************)
GUARD_TEMP_MAX == 380
GUARD_LACTATE_MAX == 20

\* dict.get(key, default)
get(d, key, default) == IF key \in DOMAIN d THEN d[key] ELSE default

\* map_action with a seeded fault: the threshold exclusive on the high side; a
\* null or absent value failing its guardrail; the limits themselves passing
map_action_exclusive(p, r, thr) ==
    IF Lt(p, thr) \/ p = thr
    THEN LET t == get(r, "median_temp", NaN)
             l == get(r, "median_lactate", NaN)
         IN  IF isnan_raises(t) \/ isnan_raises(l) THEN "TypeError"
             ELSE IF (isnan(t) \/ Lt(t, GUARD_TEMP_MAX)) /\ (isnan(l) \/ Lt(l, GUARD_LACTATE_MAX))
                  THEN "Stop / De-escalate" ELSE "Evaluate in 24h"
    ELSE "Continue / Broaden if worsening"

map_action_null_fails(p, r, thr) ==
    IF Lt(p, thr)
    THEN LET t == get(r, "median_temp", NaN)
             l == get(r, "median_lactate", NaN)
         IN  IF isnan_raises(t) \/ isnan_raises(l) THEN "TypeError"
             ELSE IF Lt(t, GUARD_TEMP_MAX) /\ Lt(l, GUARD_LACTATE_MAX)
                  THEN "Stop / De-escalate" ELSE "Evaluate in 24h"
    ELSE "Continue / Broaden if worsening"

map_action_inclusive_guard(p, r, thr) ==
    IF Lt(p, thr)
    THEN LET t == get(r, "median_temp", NaN)
             l == get(r, "median_lactate", NaN)
         IN  IF isnan_raises(t) \/ isnan_raises(l) THEN "TypeError"
             ELSE IF (isnan(t) \/ ~Lt(GUARD_TEMP_MAX, t)) /\ (isnan(l) \/ ~Lt(GUARD_LACTATE_MAX, l))
                  THEN "Stop / De-escalate" ELSE "Evaluate in 24h"
    ELSE "Continue / Broaden if worsening"

\* map_action(prob, row, thr): the label returned, or "TypeError" when np.isnan
\* is applied to a str (line 39 is reached first, then line 40)
map_action(p, r, thr) ==
    IF Lt(p, thr)
    THEN LET t == get(r, "median_temp", NaN)
             l == get(r, "median_lactate", NaN)
         IN  IF isnan_raises(t) THEN "TypeError"
             ELSE LET stable1 == IF ~isnan(t) THEN Lt(t, GUARD_TEMP_MAX) ELSE TRUE
                  IN  IF isnan_raises(l) THEN "TypeError"
                      ELSE LET stable2 == IF ~isnan(l)
                                          THEN stable1 /\ Lt(l, GUARD_LACTATE_MAX)
                                          ELSE stable1
                           IN  IF stable2 THEN "Stop / De-escalate"
                                          ELSE "Evaluate in 24h"
    ELSE "Continue / Broaden if worsening"

(***************************************************************************)
(* Tables                                                                  *)
(***************************************************************************)
\* df[c] = v: a new column is appended after the existing ones, an existing one
\* is overwritten in place
set_column(df, c, v) ==
    [cols |-> IF c \in Range(df.cols) THEN df.cols ELSE Append(df.cols, c),
     rows |-> [i \in DOMAIN df.rows |->
                 [k \in DOMAIN df.rows[i] \cup {c} |-> IF k = c THEN v ELSE df.rows[i][k]]]]

\* df[names]: the columns `names`, in that order
select(df, names) ==
    [cols |-> names,
     rows |-> [i \in DOMAIN df.rows |-> [k \in Range(names) |-> df.rows[i][k]]]]

\* lines 48-50, from the i-th feature on, on the DataFrame object df
RECURSIVE fill_missing(_, _, _)
fill_missing(df, feats, i) ==
    IF i > Len(feats) THEN df
    ELSE fill_missing(IF feats[i] \notin Range(df.cols)
                      THEN set_column(df, feats[i], NaN) ELSE df,
                      feats, i + 1)

\* ensure_feature_df with a seeded fault: no restriction to the schema; the
\* last columns taken by position; the argument left untouched
ensure_no_restrict(df) ==
    LET filled == fill_missing(df, FEATURE_ORDER, 1)
    IN  [arg |-> filled, ret |-> filled]

ensure_positional(df) ==
    LET filled == fill_missing(df, FEATURE_ORDER, 1)
        n == Len(filled.cols)
        k == Len(FEATURE_ORDER)
    IN  [arg |-> filled,
         ret |-> select(filled, SubSeq(filled.cols, n - k + 1, n))]

ensure_on_copy(df) ==
    LET filled == fill_missing(df, FEATURE_ORDER, 1)
    IN  [arg |-> df, ret |-> select(filled, FEATURE_ORDER)]

\* ensure_feature_df(df): arg is the caller's DataFrame object after the call
\* (line 50 assigns into it), ret the DataFrame returned (line 51 rebinds the
\* local name to a new object)
ensure_feature_df(df) ==
    LET filled == fill_missing(df, FEATURE_ORDER, 1)
    IN  [arg |-> filled, ret |-> select(filled, FEATURE_ORDER)]

(***************************************************************************)
(* Bounds and input sets                                                   *)
(***************************************************************************)
Spread  == 2    \* values tried on each side of a limit
MaxRows == 2    \* rows of a table
MaxCols == 2    \* columns of a table

InjSeqs(S, n) == {s \in [1..n -> S] : \A i, j \in 1..n : s[i] = s[j] => i = j}

ColSeqs(S) == UNION {InjSeqs(S, n) : n \in 0..MaxCols}

RowsOver(cs, Cells(_)) ==
    {f \in [Range(cs) -> UNION {Cells(c) : c \in Range(cs)}] :
        \A c \in Range(cs) : f[c] \in Cells(c)}

Tables(S, Cells(_)) ==
    UNION {UNION {{[cols |-> cs, rows |-> rs] : rs \in [1..k -> RowsOver(cs, Cells)]}
                  : k \in 0..MaxRows}
           : cs \in ColSeqs(S)}

\* what feature_order.joblib may hold
FeatureOrders == {<<"median_lactate", "median_temp">>, <<"age", "median_temp">>}

\* what threshold.json may hold
Thresholds == {3000, 5000}

Blank == [cols |-> <<>>, rows |-> <<>>]

MapInit ==
    /\ m_prob = NaN /\ m_row = <<>> /\ m_thr = NaN /\ m_action = ""
AlignInit ==
    /\ a_df = Blank /\ a_arg = Blank /\ a_ret = Blank /\ a_called = FALSE
AppInit ==
    /\ pc = "idle" /\ cache = <<>> /\ loads = 0 /\ from_cache = FALSE
    /\ cal = <<>> /\ THRESHOLD = NaN
    /\ button = FALSE /\ user_vals = Blank /\ file = <<>>
    /\ row = Blank /\ X = Blank /\ prob = NaN /\ action = "" /\ shown = <<>>
    /\ raw = Blank /\ tmp = Blank /\ Xb = Blank /\ probs = <<>> /\ actions = <<>>
    /\ out = <<>> /\ download = <<>> /\ error = "none"

(***************************************************************************)
(* MapSpec: map_action on every input of the bounded sets                  *)
(***************************************************************************)
MapProbs == {NaN, 0, 10000} \cup
            {t + d : t \in Thresholds, d \in (0 - Spread)..Spread}
MapThrs  == Thresholds \cup {NaN}
TempCells    == {NaN, STR} \cup {GUARD_TEMP_MAX + d : d \in (0 - Spread)..Spread}
LactateCells == {NaN, STR} \cup {GUARD_LACTATE_MAX + d : d \in (0 - Spread)..Spread}
MapCells(c) == IF c = "median_temp" THEN TempCells ELSE LactateCells
MapRows == UNION {RowsOver(cs, MapCells) :
                  cs \in {<<>>, <<"median_temp">>, <<"median_lactate">>,
                          <<"median_temp", "median_lactate">>}}

InitMap ==
    /\ m_prob \in MapProbs /\ m_thr \in MapThrs /\ m_row \in MapRows
    /\ m_action = ""
    /\ AlignInit /\ AppInit /\ FEATURE_ORDER = <<>>

CallMapAction ==
    /\ m_action = ""
    /\ m_action' = map_action(m_prob, m_row, m_thr)
    /\ UNCHANGED <<m_prob, m_row, m_thr, alignVars, appVars, FEATURE_ORDER>>

NextMap == CallMapAction

MapSpec == InitMap /\ [][NextMap]_vars

(***************************************************************************)
(* AlignSpec: ensure_feature_df on every table of the bounded sets         *)
(***************************************************************************)
AlignNames == {"age", "median_temp", "median_lactate", "patient_id"}
AlignCells(c) == {NaN, 385}

InitAlign ==
    /\ FEATURE_ORDER \in FeatureOrders
    /\ a_df \in Tables(AlignNames, AlignCells)
    /\ a_arg = a_df /\ a_ret = Blank /\ a_called = FALSE
    /\ MapInit /\ AppInit

\* X = ensure_feature_df(df): a_arg is the object passed, a_ret the one returned
CallEnsure ==
    /\ ~a_called
    /\ a_called' = TRUE
    /\ a_arg' = ensure_feature_df(a_arg).arg
    /\ a_ret' = ensure_feature_df(a_arg).ret
    /\ UNCHANGED <<a_df, mapVars, appVars, FEATURE_ORDER>>

NextAlign == CallEnsure

AlignSpec == InitAlign /\ [][NextAlign]_vars

(***************************************************************************)
(* The process: script runs of app.py                                      *)
(***************************************************************************)
\* what model_lgbm_isotonic.joblib may hold: the calibrated probabilities the
\* classifier can output, one per leaf of the (opaque) model
Models == {<<1204, 4996, 5000, 7002>>}

Artifacts == {[cal |-> c, feats |-> f, thr |-> t] :
              c \in Models, f \in FeatureOrders, t \in Thresholds}

\* st.cache_resource: the body runs only when nothing is cached (seeded fault:
\* the decorator missing)
cache_never_hit(c) == FALSE
cache_hit(c) == c # <<>>

\* np.round(p, 3) and f"{p:.3f}": to the nearest 1/1000, ties to even
Round3(p) ==
    LET q == p \div 10
        r == p % 10
    IN  IF r < 5 THEN q * 10
        ELSE IF r > 5 THEN (q + 1) * 10
        ELSE IF q % 2 = 0 THEN q * 10 ELSE (q + 1) * 10

\* the opaque classifier: the leaf a row falls in depends on the cell of every
\* column position (a null cell counts 0)
RECURSIVE leaf_score(_, _, _)
leaf_score(r, cols, j) ==
    IF j > Len(cols) THEN 0
    ELSE j * (IF r[cols[j]] = NaN THEN 0 ELSE r[cols[j]]) + leaf_score(r, cols, j + 1)

has_text(df) == \E i \in DOMAIN df.rows : \E c \in Range(df.cols) : IsText(df.rows[i][c])

\* cal.predict_proba(X) raises on an object column
predict_raises(df) == has_text(df)

\* cal.predict_proba(X)[:, 1]
predict_proba(c, df) ==
    [i \in DOMAIN df.rows |-> c[(leaf_score(df.rows[i], df.cols, 1) % Len(c)) + 1]]

\* the three labels as cells of a table
STOP_CELL == -3
EVALUATE_CELL == -4
CONTINUE_CELL == -5
label_cell(a) ==
    IF a = "Stop / De-escalate" THEN STOP_CELL
    ELSE IF a = "Evaluate in 24h" THEN EVALUATE_CELL
    ELSE CONTINUE_CELL

\* pd.read_csv(file): an empty file raises EmptyDataError; a column with a
\* non-numeric cell stays a column of str (its numeric cells too), empty cells
\* are NaN
read_csv_raises(f) == f.cols = <<>>
read_csv(f) ==
    [cols |-> f.cols,
     rows |-> [i \in DOMAIN f.rows |->
                 [c \in Range(f.cols) |->
                    IF f.rows[i][c] >= 0 /\ \E j \in DOMAIN f.rows : IsText(f.rows[j][c])
                    THEN STR ELSE f.rows[i][c]]]]

\* df[c] = vals, one value per row
set_column_values(df, c, vals) ==
    [cols |-> IF c \in Range(df.cols) THEN df.cols ELSE Append(df.cols, c),
     rows |-> [i \in DOMAIN df.rows |->
                 [k \in DOMAIN df.rows[i] \cup {c} |->
                    IF k = c THEN vals[i] ELSE df.rows[i][k]]]]

\* the keys of `defaults` (lines 62-70)
defaults == {"median_temp", "median_lactate", "median_wbc", "median_heartrate",
             "median_resprate", "median_sysbp", "median_diasbp"}

InDefaults(f) == f \in defaults
NotInDefaults(f) == f \notin defaults

\* lines 73-85: the keys of user_vals in insertion order
form_columns(feats) == SelectSeq(feats, InDefaults) \o SelectSeq(feats, NotInDefaults)

\* st.number_input returns a float; only a feature outside `defaults` may stay nan
FormCells(c) ==
    IF c = "median_temp" THEN {370, 385}
    ELSE IF c = "median_lactate" THEN {15, 25}
    ELSE {NaN, 40}

\* pd.DataFrame([user_vals]) for every form content
Forms(feats) ==
    {[cols |-> form_columns(feats), rows |-> <<r>>] :
        r \in RowsOver(form_columns(feats), FormCells)}

\* the uploaded csv files
FileNames == {"median_temp", "median_lactate", "patient_id", "recommendation"}
FileCells(c) ==
    IF c = "median_temp" THEN {NaN, 385, STR}
    ELSE IF c = "median_lactate" THEN {NaN, 15, STR}
    ELSE IF c = "patient_id" THEN {7}
    ELSE {STR}
\* a file with no header line at all (pd.read_csv raises), or with a header and
\* at least one data row: what the opaque classifier does with a table of no
\* rows is not decided by this repository
Files == {t \in Tables(FileNames, FileCells) : t.rows # <<>> \/ t.cols = <<>>}

\* the files tried in a script run that has also served a Predict click
FilesAfterPredict == {t \in Files : Len(t.cols) <= 1 /\ Len(t.rows) <= 1}

\* what the except clause of line 106 catches (seeded fault: except ImportError)
ShapOutcomes == {"ok", "ModuleNotFoundError", "LightGBMError", "ValueError"}
caught_import_only(e) == e = "ModuleNotFoundError"
caught(e) == e \in {"ModuleNotFoundError", "LightGBMError", "ValueError"}

Element(kind, num, text) == [kind |-> kind, num |-> num, text |-> text]

\* line 16 with lines 8-14: a new script run starts (a widget changed, or the
\* page was opened); what the previous run rendered is cleared
ScriptStart ==
    /\ pc = "idle"
    /\ \E art \in (IF cache_hit(cache) THEN {cache[1]} ELSE Artifacts) :
         /\ cache' = <<art>>
         /\ loads' = IF cache_hit(cache) THEN loads ELSE loads + 1
         /\ from_cache' = cache_hit(cache)
         /\ cal' = art.cal /\ FEATURE_ORDER' = art.feats /\ THRESHOLD' = art.thr
    /\ button' = FALSE /\ user_vals' = Blank /\ file' = <<>>
    /\ row' = Blank /\ X' = Blank /\ prob' = NaN /\ action' = "" /\ shown' = <<>>
    /\ raw' = Blank /\ tmp' = Blank /\ Xb' = Blank /\ probs' = <<>> /\ actions' = <<>>
    /\ out' = <<>> /\ download' = <<>> /\ error' = "none"
    /\ pc' = "tab1"
    /\ UNCHANGED <<mapVars, alignVars>>

\* line 16 when an artifact file cannot be loaded: load_models raises, nothing
\* is cached and the script run ends there
LoadFails ==
    /\ pc = "idle"
    /\ ~cache_hit(cache)
    /\ error' = "FileNotFoundError"
    /\ button' = FALSE /\ user_vals' = Blank /\ file' = <<>>
    /\ row' = Blank /\ X' = Blank /\ prob' = NaN /\ action' = "" /\ shown' = <<>>
    /\ raw' = Blank /\ tmp' = Blank /\ Xb' = Blank /\ probs' = <<>> /\ actions' = <<>>
    /\ out' = <<>> /\ download' = <<>>
    /\ UNCHANGED <<pc, loadVars, mapVars, alignVars>>

\* lines 88-91 on the one-row table df: the probability and the action (when
\* predict_proba does not raise)
single_flow(df) ==
    LET r == ensure_feature_df(df)
        p == predict_proba(cal, r.ret)[1]
    IN  [prob |-> p, action |-> map_action(p, r.arg.rows[1], THRESHOLD)]

\* lines 72-95, Predict clicked with the form holding `form`
SinglePredict ==
    /\ pc = "tab1"
    /\ \E form \in Forms(FEATURE_ORDER) :
       LET r == ensure_feature_df(form)
           p == single_flow(form).prob
           a == single_flow(form).action
       IN  /\ button' = TRUE /\ user_vals' = form
           /\ row' = r.arg
           /\ X' = r.ret
           /\ IF predict_raises(r.ret)
              THEN /\ error' = "ValueError" /\ pc' = "idle"
                   /\ UNCHANGED <<prob, action, shown>>
              ELSE /\ prob' = p
                   /\ IF a = "TypeError"
                      THEN /\ error' = "TypeError" /\ pc' = "idle"
                           /\ UNCHANGED <<action, shown>>
                      ELSE /\ action' = a
                           /\ shown' = <<Element("metric_prob", Round3(p), ""),
                                         Element("metric_thr", Round3(THRESHOLD), ""),
                                         Element("success", 0, a)>>
                           /\ pc' = "shap"
                           /\ UNCHANGED error
    /\ UNCHANGED <<loadVars, file,
                   tab2Vars, mapVars, alignVars>>

\* lines 72-87, Predict not clicked
SkipSingle ==
    /\ pc = "tab1"
    /\ pc' = "tab2"
    /\ UNCHANGED <<loadVars, button, user_vals, file,
                   row, X, prob, action, shown, tab2Vars, error, mapVars, alignVars>>

\* lines 98-107: the explanation succeeds or raises e
Explain ==
    /\ pc = "shap"
    /\ \E e \in ShapOutcomes :
         IF e = "ok"
         THEN /\ shown' = Append(shown, Element("bar_chart", 0, ""))
              /\ pc' = "tab2" /\ UNCHANGED error
         ELSE IF caught(e)
         THEN /\ shown' = Append(shown, Element("info", 0, e))
              /\ pc' = "tab2" /\ UNCHANGED error
         ELSE /\ error' = e /\ pc' = "idle" /\ UNCHANGED shown
    /\ UNCHANGED <<loadVars, button, user_vals, file,
                   row, X, prob, action, tab2Vars, mapVars, alignVars>>

\* line 116: Xb = ensure_feature_df(raw.copy()); raw is the caller's table after
\* the call, tmp the copy after the call (seeded fault: raw itself is passed)
batch_align_no_copy(df) ==
    LET r == ensure_feature_df(df)
    IN  [raw |-> r.arg, tmp |-> r.arg, Xb |-> r.ret]

batch_align(df) ==
    LET r == ensure_feature_df(df)
    IN  [raw |-> df, tmp |-> r.arg, Xb |-> r.ret]

\* line 120, one iteration: the exception of map_action is not caught (seeded
\* fault: the row is isolated in a try block)
batch_row_isolated(acts, p, r, thr) ==
    LET a == map_action(p, r, thr)
    IN  IF a = "TypeError"
        THEN [raised |-> "none", actions |-> Append(acts, "Evaluate in 24h")]
        ELSE [raised |-> "none", actions |-> Append(acts, a)]

batch_row(acts, p, r, thr) ==
    LET a == map_action(p, r, thr)
    IN  IF a = "TypeError"
        THEN [raised |-> "TypeError", actions |-> acts]
        ELSE [raised |-> "none", actions |-> Append(acts, a)]

\* lines 122-124
export_table(df, ps, acts) ==
    set_column_values(
        set_column_values(df, "prob_infection", [i \in DOMAIN ps |-> Round3(ps[i])]),
        "recommendation", [i \in DOMAIN acts |-> label_cell(acts[i])])

\* lines 112-114, no file in the uploader: the script run ends
SkipBatch ==
    /\ pc = "tab2"
    /\ pc' = "idle"
    /\ UNCHANGED <<loadVars, button, user_vals, file,
                   tab1Vars, tab2Vars, error, mapVars, alignVars>>

\* lines 112-118, the uploader holding the file f
BatchStart ==
    /\ pc = "tab2"
    /\ \E f \in (IF button THEN FilesAfterPredict ELSE Files) :
       /\ file' = <<f>>
       /\ IF read_csv_raises(f)
          THEN /\ error' = "EmptyDataError" /\ pc' = "idle"
               /\ UNCHANGED <<raw, tmp, Xb, probs>>
          ELSE LET b == batch_align(read_csv(f))
               IN  /\ raw' = b.raw /\ tmp' = b.tmp /\ Xb' = b.Xb
                   /\ IF predict_raises(b.Xb)
                      THEN /\ error' = "ValueError" /\ pc' = "idle"
                           /\ UNCHANGED probs
                      ELSE /\ probs' = predict_proba(cal, b.Xb)
                           /\ pc' = "batch_loop"
                           /\ UNCHANGED error
    /\ UNCHANGED <<loadVars, button, user_vals,
                   tab1Vars, actions, out, download, mapVars, alignVars>>

\* lines 119-120, the next row
BatchRow ==
    /\ pc = "batch_loop" /\ Len(actions) < Len(Xb.rows)
    /\ LET i == Len(actions) + 1
           s == batch_row(actions, probs[i], raw.rows[i], THRESHOLD)
       IN  /\ actions' = s.actions
           /\ error' = s.raised
           /\ pc' = IF s.raised = "none" THEN "batch_loop" ELSE "idle"
    /\ UNCHANGED <<loadVars, button, user_vals, file,
                   tab1Vars, raw, tmp, Xb, probs, out, download, mapVars, alignVars>>

\* lines 122-128, after the last row
BatchExport ==
    /\ pc = "batch_loop" /\ Len(actions) = Len(Xb.rows)
    /\ out' = <<export_table(raw, probs, actions)>>
    /\ download' = out'
    /\ pc' = "idle"
    /\ UNCHANGED <<loadVars, button, user_vals, file,
                   tab1Vars, raw, tmp, Xb, probs, actions, error, mapVars, alignVars>>

Init == MapInit /\ AlignInit /\ AppInit /\ FEATURE_ORDER = <<>>

Next ==
    \/ ScriptStart
    \/ LoadFails
    \/ SinglePredict
    \/ SkipSingle
    \/ Explain
    \/ SkipBatch
    \/ BatchStart
    \/ BatchRow
    \/ BatchExport

Spec == Init /\ [][Next]_vars

(***************************************************************************)
(* Properties                                                              *)
(***************************************************************************)
\* Python's `a >= b` on floats
Ge(a, b) == a # NaN /\ b # NaN /\ a >= b

MapCalled == m_action # ""

\* the guardrail value under key k is absent, null or a number below the limit
Passes(r, k, limit) == k \notin DOMAIN r \/ r[k] = NaN \/ (r[k] >= 0 /\ r[k] < limit)
\* the guardrail value under key k is present and a number at or above the limit
Fails(r, k, limit) == k \in DOMAIN r /\ r[k] >= limit
\* the guardrail value under key k is absent, null or a number
Numeric(r, k) == ~IsText(get(r, k, NaN))

\* C1: whenever p >= thr (p = thr included), map_action returns "Continue /
\* Broaden if worsening", whatever median_temp and median_lactate are (absent,
\* null, any number, even a str).
C1_ContinueAtOrAboveThreshold ==
    (MapCalled /\ Ge(m_prob, m_thr)) => m_action = "Continue / Broaden if worsening"

\* C1's case: p exactly at the threshold with a temperature over its limit
C1_Witness ==
    /\ MapCalled /\ m_prob = m_thr /\ m_thr # NaN
    /\ Fails(m_row, "median_temp", GUARD_TEMP_MAX)
    /\ m_action = "Continue / Broaden if worsening"

\* C2: whenever p < thr and each of median_temp, median_lactate is absent, null
\* or strictly below its limit, map_action returns "Stop / De-escalate".
C2_StopWhenNoGuardrailFails ==
    (/\ MapCalled /\ Lt(m_prob, m_thr)
     /\ Passes(m_row, "median_temp", GUARD_TEMP_MAX)
     /\ Passes(m_row, "median_lactate", GUARD_LACTATE_MAX))
    => m_action = "Stop / De-escalate"

\* C2's case: p < thr, temperature absent and lactate null
C2_Witness ==
    /\ MapCalled /\ Lt(m_prob, m_thr)
    /\ "median_temp" \notin DOMAIN m_row
    /\ "median_lactate" \in DOMAIN m_row /\ m_row["median_lactate"] = NaN
    /\ m_action = "Stop / De-escalate"

\* C3: whenever p < thr and a present median_temp is >= 38.0 or a present
\* median_lactate is >= 2.0, map_action returns "Evaluate in 24h", whatever the
\* other value of the patient record is (absent, null or any number); the
\* limits themselves fail the guardrail.
C3_EvaluateWhenGuardrailFails ==
    (/\ MapCalled /\ Lt(m_prob, m_thr)
     /\ \/ Fails(m_row, "median_temp", GUARD_TEMP_MAX) /\ Numeric(m_row, "median_lactate")
        \/ Fails(m_row, "median_lactate", GUARD_LACTATE_MAX) /\ Numeric(m_row, "median_temp"))
    => m_action = "Evaluate in 24h"

\* C3's case: p < thr, temperature exactly 38.0, lactate below 2.0
C3_Witness ==
    /\ MapCalled /\ Lt(m_prob, m_thr)
    /\ "median_temp" \in DOMAIN m_row /\ m_row["median_temp"] = GUARD_TEMP_MAX
    /\ "median_lactate" \in DOMAIN m_row /\ m_row["median_lactate"] >= 0
    /\ m_row["median_lactate"] < GUARD_LACTATE_MAX
    /\ m_action = "Evaluate in 24h"

\* C4: the table ensure_feature_df returns has exactly the columns of
\* FEATURE_ORDER in that order and as many rows as the input; a schema column
\* of the input keeps its values, a schema column the input lacks is null in
\* every row, and the other input columns are gone.
C4_AlignedToSchema ==
    a_called =>
        /\ a_ret.cols = FEATURE_ORDER
        /\ Len(a_ret.rows) = Len(a_df.rows)
        /\ \A i \in DOMAIN a_ret.rows :
             /\ DOMAIN a_ret.rows[i] = Range(FEATURE_ORDER)
             /\ \A c \in Range(FEATURE_ORDER) :
                  a_ret.rows[i][c] = IF c \in Range(a_df.cols) THEN a_df.rows[i][c] ELSE NaN

\* C4's case: an input with a schema column holding a value, without another
\* schema column, and with a column outside the schema
C4_Witness ==
    /\ a_called
    /\ \E c \in Range(FEATURE_ORDER) : c \notin Range(a_df.cols)
    /\ \E c \in Range(a_df.cols) : c \notin Range(FEATURE_ORDER)
    /\ \E c \in Range(FEATURE_ORDER) \cap Range(a_df.cols) :
         \E i \in DOMAIN a_df.rows : a_df.rows[i][c] # NaN /\ a_ret.rows[i][c] = a_df.rows[i][c]

\* C5: aligning the table ensure_feature_df returned gives that table again.
C5_AlignIdempotent ==
    a_called => ensure_feature_df(a_ret).ret = a_ret

\* C5's case: a table with rows that alignment changed
C5_Witness ==
    /\ a_called /\ a_ret # a_df /\ a_df.rows # <<>>
    /\ ensure_feature_df(a_ret).ret = a_ret

\* C6: the export has the rows of the uploaded table in their order, every
\* original column with its original values, exactly the two new columns
\* prob_infection and recommendation after them, and in each row the rounded
\* probability and the recommendation that the single-record flow computes for
\* that row alone.
C6_ExportKeepsInputAndAddsTwo ==
    download # <<>> =>
        LET o == download[1]
        IN  /\ o.cols = raw.cols \o <<"prob_infection", "recommendation">>
            /\ Len(o.rows) = Len(raw.rows)
            /\ \A i \in DOMAIN raw.rows :
                 /\ \A c \in Range(raw.cols) : o.rows[i][c] = raw.rows[i][c]
                 /\ LET s == single_flow([cols |-> raw.cols, rows |-> <<raw.rows[i]>>])
                    IN  /\ o.rows[i]["prob_infection"] = Round3(s.prob)
                        /\ o.rows[i]["recommendation"] = label_cell(s.action)

\* C6 restricted to the uploads that have no column named prob_infection or
\* recommendation: there the export is as C6 says
ExportKeepsInputUnlessNameTaken ==
    (download # <<>> /\ {"prob_infection", "recommendation"} \cap Range(raw.cols) = {})
    => C6_ExportKeepsInputAndAddsTwo

\* an export of a table of two rows with different recommendations
ExportOfTwoRows ==
    /\ download # <<>> /\ Len(raw.rows) = 2
    /\ "recommendation" \notin Range(raw.cols)
    /\ download[1].rows[1]["recommendation"] # download[1].rows[2]["recommendation"]

ResultsShown ==
    /\ Len(shown) >= 3
    /\ shown[1] = Element("metric_prob", Round3(prob), "")
    /\ shown[2] = Element("metric_thr", Round3(THRESHOLD), "")
    /\ shown[3] = Element("success", 0, action)

\* C7: once Predict was served, the probability, the threshold and the action
\* are shown before the explanation is attempted and stay shown; whatever the
\* explanation raises, the step ends with the bar chart or an st.info message
\* and the script run goes on to the batch tab without an uncaught exception.
C7_ExplanationNeverAborts ==
    button =>
        /\ ResultsShown
        /\ pc = "shap" => Len(shown) = 3 /\ error = "none"
        /\ pc # "shap" => /\ Len(shown) = 4
                          /\ shown[4].kind \in {"bar_chart", "info"}
        /\ pc = "tab2" => error = "none"

\* C7's case: shap is not installed, the results and the st.info are shown
C7_Witness ==
    /\ button /\ pc = "tab2" /\ ResultsShown /\ error = "none"
    /\ Len(shown) = 4 /\ shown[4] = Element("info", 0, "ModuleNotFoundError")

\* C8: the body of load_models runs at most once, every script run past line
\* 16 works on the cached tuple, and no step changes the cached tuple, the
\* feature order or the threshold once loaded.
C8_LoadedOnceAndReadOnly ==
    [][/\ loads' <= 1
       /\ pc' # "idle" => loads' = 1 /\ cache' # <<>>
       /\ cache' # <<>> => /\ cal' = cache'[1].cal
                           /\ FEATURE_ORDER' = cache'[1].feats
                           /\ THRESHOLD' = cache'[1].thr
       /\ cache # <<>> => cache' = cache /\ loads' = loads]_vars

\* C8's case: a later script run, answered from the cache, exports a batch
C8_Witness ==
    /\ from_cache /\ loads = 1 /\ download # <<>>
    /\ THRESHOLD = cache[1].thr /\ FEATURE_ORDER = cache[1].feats

\* the rows of the uploaded table on which the action mapping raises
MappingFails(i) == map_action(probs[i], raw.rows[i], THRESHOLD) = "TypeError"

\* C9: an uncaught exception ends the script run with no table out and no
\* download, whatever rows were mapped before it; and an export is offered
\* only when inference did not raise and the mapping raised on no row.
C9_BatchAllOrNothing ==
    /\ error # "none" => pc = "idle" /\ out = <<>> /\ download = <<>>
    /\ download # <<>> => /\ ~has_text(Xb)
                          /\ Len(actions) = Len(raw.rows)
                          /\ \A i \in DOMAIN raw.rows : ~MappingFails(i)

\* C9's case: the mapping raises on the second row, after the first was mapped
C9_Witness ==
    /\ error = "TypeError" /\ Len(actions) = 1 /\ Len(raw.rows) = 2
    /\ MappingFails(2) /\ download = <<>> /\ out = <<>>

\* the batch flow has read the file and aligned it
BatchAligned == file # <<>> /\ ~read_csv_raises(file[1])

NotIn(df, c) == c \notin Range(df.cols)
RECURSIVE Missing(_, _, _)
Missing(df, feats, i) ==
    IF i > Len(feats) THEN <<>>
    ELSE (IF NotIn(df, feats[i]) THEN <<feats[i]>> ELSE <<>>) \o Missing(df, feats, i + 1)

\* C10: the table passed to ensure_feature_df (in the batch flow the copy of
\* raw) has after the call its own columns followed by the schema columns it
\* lacked, those null, its other cells as before; only the returned table is
\* restricted to the schema; a table that has every schema column (the form's
\* one-row table, a complete upload) is unchanged; and raw stays the table
\* that was read.
C10_AlignMutatesArgumentOnly ==
    /\ BatchAligned =>
         /\ raw = read_csv(file[1])
         /\ tmp.cols = raw.cols \o Missing(raw, FEATURE_ORDER, 1)
         /\ Len(tmp.rows) = Len(raw.rows)
         /\ \A i \in DOMAIN tmp.rows : \A c \in Range(tmp.cols) :
              tmp.rows[i][c] = IF c \in Range(raw.cols) THEN raw.rows[i][c] ELSE NaN
         /\ Xb.cols = FEATURE_ORDER
         /\ Missing(raw, FEATURE_ORDER, 1) = <<>> => tmp = raw
    /\ button => row = user_vals /\ X.cols = FEATURE_ORDER

\* C10's case: an upload with rows, a column outside the schema and a schema
\* column missing, in the mapping loop
C10_Witness ==
    /\ BatchAligned /\ pc = "batch_loop" /\ raw.rows # <<>>
    /\ Missing(raw, FEATURE_ORDER, 1) # <<>>
    /\ \E c \in Range(raw.cols) : c \notin Range(FEATURE_ORDER) /\ c \in Range(tmp.cols)
    /\ tmp # raw /\ raw = read_csv(file[1])

====
